---------------------------- MODULE Spec2Model ----------------------------
(***************************************************************************)
(* A model of extractdtb.py: the scan of a kernel image for device-tree    *)
(* blobs, the split of the image into regions, the decoding of each region *)
(* with the external decompiler dtc, the naming of each region from the    *)
(* decoded text and the writing of one file per region.                    *)
(*                                                                         *)
(* Text (file names, the decompiler's output) is a sequence of one-        *)
(* character strings; bytes are the integers 0..255; Python's None is the  *)
(* empty sequence (the code tests new_name for truth, which None and ""    *)
(* both fail).  Offsets are zero-based as in the code; SubSeq is one-based.*)
(***************************************************************************)
EXTENDS Integers, Sequences, FiniteSets, TLC

VARIABLES
    inputExists,  \* whether args.input names an existing path
    inputBytes,   \* the bytes of the file at args.input
    dtc,          \* which decompiler the environment has: see DtcBehaviours
    outDir0,      \* args.out_dir before the run: [exists, files]
    dirExists,    \* whether args.out_dir exists
    files,        \* the files of args.out_dir: name -> bytes
    pc,           \* the position of main()
    exitCode,     \* the process's exit status once pc = "exit", else -1
    error,        \* the uncaught exception that ended the run, or "none"
    content,      \* main's content
    positions,    \* main's positions
    dtb_next,     \* main's dtb_next
    used_names,   \* main's used_names: name -> count
    i,            \* main's loop index
    chunk,        \* main's chunk
    result,       \* the outcome of subprocess.run in get_readable_name
    tokens,       \* get_readable_name's <<arg1, arg2, arg3>>
    new_name,     \* main's new_name
    regions,      \* history: [start, end, bytes, new_name] of each region taken
    log,          \* history: the "Extracted #i" lines printed
    run,          \* 1 in the first run of main, 2 in a second run on the same input
    prev,         \* what the first run left: [log, files, error, exitCode]
    memo          \* what dtc answered so far: bytes of the file -> outcome

vars == <<inputExists, inputBytes, dtc, outDir0, dirExists, files, pc, exitCode,
          error, content, positions, dtb_next, used_names, i, chunk, result,
          tokens, new_name, regions, log, run, prev, memo>>

-----------------------------------------------------------------------------
(* Bounds of the model *)

\* the most blobs an image of the stub environment holds
MaxRegions == 3
\* the longest run of bytes around the markers of a scan-stress image
MaxJunk == 1
\* the longest value of a compatible or description field of a generated text
MaxVal == 3

-----------------------------------------------------------------------------
(* Sequences and text *)

None == <<>>

Min(S) == CHOOSE x \in S : \A y \in S : x <= y

Max(S) == CHOOSE x \in S : \A y \in S : x >= y

RECURSIVE SeqsUpTo(_, _)
SeqsUpTo(S, n) ==
    IF n = 0 THEN {<<>>}
    ELSE LET shorter == SeqsUpTo(S, n - 1)
         IN  shorter \cup {Append(s, c) : s \in shorter, c \in S}

RECURSIVE Concat(_)
Concat(ss) == IF ss = <<>> THEN <<>> ELSE Head(ss) \o Concat(Tail(ss))

Digit == <<"0", "1", "2", "3", "4", "5", "6", "7", "8", "9">>

\* str(n) for n >= 0
RECURSIVE IntToStr(_)
IntToStr(n) ==
    IF n < 10 THEN <<Digit[n + 1]>>
    ELSE IntToStr(n \div 10) \o <<Digit[(n % 10) + 1]>>

\* f"{n:02d}" for n >= 0: zero-padded to width 2, wider when n >= 100
Pad02(n) == IF n < 10 THEN <<"0">> \o IntToStr(n) ELSE IntToStr(n)

UpperCase == <<"A", "B", "C", "D", "E", "F", "G", "H", "I", "J", "K", "L", "M",
               "N", "O", "P", "Q", "R", "S", "T", "U", "V", "W", "X", "Y", "Z">>

LowerCase == <<"a", "b", "c", "d", "e", "f", "g", "h", "i", "j", "k", "l", "m",
               "n", "o", "p", "q", "r", "s", "t", "u", "v", "w", "x", "y", "z">>

LowerChar(c) ==
    IF \E k \in 1..Len(UpperCase) : UpperCase[k] = c
    THEN LowerCase[CHOOSE k \in 1..Len(UpperCase) : UpperCase[k] = c]
    ELSE c

\* str.lower()
Lower(s) == [k \in 1..Len(s) |-> LowerChar(s[k])]

\* the characters str.strip() removes and the regex class \s matches
WhiteSpace == {" ", "\t", "\n", "\r", "\f"}

\* str.strip()
Strip(s) ==
    LET keep == {k \in 1..Len(s) : s[k] \notin WhiteSpace}
    IN  IF keep = {} THEN <<>> ELSE SubSeq(s, Min(keep), Max(keep))

\* str.split(","): always at least one segment
RECURSIVE SplitComma(_)
SplitComma(s) ==
    LET commas == {k \in 1..Len(s) : s[k] = ","}
    IN  IF commas = {} THEN <<s>>
        ELSE <<SubSeq(s, 1, Min(commas) - 1)>>
             \o SplitComma(SubSeq(s, Min(commas) + 1, Len(s)))

-----------------------------------------------------------------------------
(* get_readable_name: the decompiler's outcome, the two fields, the name *)

Kw_compatible == <<"c", "o", "m", "p", "a", "t", "i", "b", "l", "e">>

Kw_description == <<"d", "e", "s", "c", "r", "i", "p", "t", "i", "o", "n">>

\* the index of the first character at or after p that \s* does not consume
SkipSpace(s, p) ==
    LET stop == {q \in p..Len(s) : s[q] \notin WhiteSpace}
    IN  IF stop = {} THEN Len(s) + 1 ELSE Min(stop)

\* The regex  kw\s*=\s*"(.*?)"  tried at index p of s: <<open, close>>, the
\* indexes of the two quotes, or <<0, 0>> when it does not match there.  The
\* lazy group ends at the first quote after the opening one, and "." does not
\* match a line break.
MatchAt(kw, s, p) ==
    LET n  == Len(kw)
        q1 == SkipSpace(s, p + n)
        q2 == SkipSpace(s, q1 + 1)
        closing == {r \in (q2 + 1)..Len(s) : s[r] = "\""}
    IN  IF p + n - 1 > Len(s) \/ SubSeq(s, p, p + n - 1) # kw THEN <<0, 0>>
        ELSE IF q1 > Len(s) \/ s[q1] # "=" THEN <<0, 0>>
        ELSE IF q2 > Len(s) \/ s[q2] # "\"" THEN <<0, 0>>
        ELSE IF closing = {} THEN <<0, 0>>
        ELSE IF \E k \in (q2 + 1)..(Min(closing) - 1) : s[k] = "\n" THEN <<0, 0>>
        ELSE <<q2, Min(closing)>>

\* re.search(r'kw\s*=\s*"(.*?)"', s): [found, group], the leftmost match
ReSearch(kw, s) ==
    LET hits == {p \in 1..Len(s) : MatchAt(kw, s, p) # <<0, 0>>}
    IN  IF hits = {} THEN [found |-> FALSE, group |-> <<>>]
        ELSE LET m == MatchAt(kw, s, Min(hits))
             IN  [found |-> TRUE, group |-> SubSeq(s, m[1] + 1, m[2] - 1)]

Arg1(dts_content) ==
    LET comp_match == ReSearch(Kw_compatible, dts_content)
        raw_comp   == comp_match.group
    IN  IF comp_match.found
        THEN IF \E k \in 1..Len(raw_comp) : raw_comp[k] = ","
             THEN Strip(SplitComma(raw_comp)[2])
             ELSE Strip(raw_comp)
        ELSE <<"u", "n", "k", "n", "o", "w", "n">>

Arg2(dts_content) ==
    LET desc_match == ReSearch(Kw_description, dts_content)
        parts      == SplitComma(desc_match.group)
    IN  IF desc_match.found /\ Len(parts) >= 1
        THEN Lower(Strip(parts[1]))
        ELSE <<"u", "n", "k">>

Arg3(dts_content) ==
    LET desc_match == ReSearch(Kw_description, dts_content)
        parts      == SplitComma(desc_match.group)
    IN  IF desc_match.found /\ Len(parts) >= 2
        THEN Lower(Strip(parts[2]))
        ELSE <<"u", "n", "k">>

Ext_dtb == <<".", "d", "t", "b">>

\* f"{arg1}-{arg2}-{arg3}.dtb"
CanonicalName(args) == args[1] \o <<"-">> \o args[2] \o <<"-">> \o args[3] \o Ext_dtb

\* subprocess.run either raises (dtc cannot be launched, its output is not
\* text) or returns with a return code and the captured standard output
Raised == [raised |-> TRUE, returncode |-> 1, stdout |-> <<>>]

Exited(rc, out) == [raised |-> FALSE, returncode |-> rc, stdout |-> out]

Tokens(res) ==
    IF res.raised \/ res.returncode # 0 THEN <<>>
    ELSE <<Arg1(res.stdout), Arg2(res.stdout), Arg3(res.stdout)>>

get_readable_name(res) ==
    IF res.raised THEN None
    ELSE IF res.returncode # 0 THEN None
    ELSE CanonicalName(Tokens(res))

-----------------------------------------------------------------------------
(* main: the scanner, the regions, the names *)

DTB_HEADER == <<208, 13, 254, 237>>

\* content.find(DTB_HEADER, start): the lowest offset >= start, or -1
Find(buf, start) ==
    LET hits == {p \in start..(Len(buf) - Len(DTB_HEADER)) :
                    SubSeq(buf, p + 1, p + Len(DTB_HEADER)) = DTB_HEADER}
    IN  IF hits = {} THEN -1 ELSE Min(hits)

\* a scanner that resumes one byte past the end of the marker it matched
ResumeAt_PastMarker(p) == p + Len(DTB_HEADER) + 1

\* where the search resumes after a match at offset p
ResumeAt(p) == p + 1

\* loop_positions = positions + [len(content)]
LoopPositions(buf, pos) == Append(pos, Len(buf))

\* a slice that drops the last byte of the range
Slice_DropLast(buf, start, end) == SubSeq(buf, start + 1, end - 1)

\* content[start:end]
Slice(buf, start, end) == SubSeq(buf, start + 1, end)

\* f"temp_{i:02d}.dtb"
TempName(k) == <<"t", "e", "m", "p", "_">> \o Pad02(k) \o Ext_dtb

\* a fallback name without the index of the region
FallbackName_NoIndex(k) == <<"u", "n", "k", "n", "o", "w", "n">> \o Ext_dtb

\* a fallback name that counts the regions from one
FallbackName_OneBased(k) ==
    <<"u", "n", "k", "n", "o", "w", "n", "_">> \o Pad02(k + 1) \o Ext_dtb

\* f"unknown_{i:02d}.dtb"
FallbackName(k) == <<"u", "n", "k", "n", "o", "w", "n", "_">> \o Pad02(k) \o Ext_dtb

\* os.path.splitext(p): <<root, ext>>.  The extension starts at the last dot
\* of the last path component, unless only dots precede it there.
SplitExt(p) ==
    LET seps == {k \in 1..Len(p) : p[k] = "/"}
        dots == {k \in 1..Len(p) : p[k] = "."}
        sepIndex == IF seps = {} THEN 0 ELSE Max(seps)
        dotIndex == IF dots = {} THEN 0 ELSE Max(dots)
    IN  IF dotIndex > sepIndex
           /\ \E k \in (sepIndex + 1)..(dotIndex - 1) : p[k] # "."
        THEN <<SubSeq(p, 1, dotIndex - 1), SubSeq(p, dotIndex, Len(p))>>
        ELSE <<p, <<>>>>

\* a registry whose counts start at one
NextCount_FromOne(used, name) == IF name \in DOMAIN used THEN used[name] + 1 ELSE 1

\* the count used_names holds for name once name has been resolved against it
NextCount(used, name) == IF name \in DOMAIN used THEN used[name] + 1 ELSE 0

\* used_names after name has been resolved against it
Register(used, name) ==
    [n \in DOMAIN used \cup {name} |->
        IF n = name THEN NextCount(used, name) ELSE used[n]]

\* final_name for a decoded region
FinalName(used, name) ==
    IF name \in DOMAIN used
    THEN SplitExt(name)[1] \o <<"_">> \o IntToStr(NextCount(used, name))
         \o SplitExt(name)[2]
    ELSE name

\* a rename that copies: src stays in the directory
Rename_Copy(dir, src, dst) ==
    [n \in DOMAIN dir \cup {dst} |-> IF n = dst THEN dir[src] ELSE dir[n]]

\* the directory after os.rename(src, dst): dst is replaced when it exists
Rename(dir, src, dst) ==
    [n \in (DOMAIN dir \ {src}) \cup {dst} |-> IF n = dst THEN dir[src] ELSE dir[n]]

\* the directory after dump_file(name, bytes)
Dump(dir, name, bytes) ==
    [n \in DOMAIN dir \cup {name} |-> IF n = name THEN bytes ELSE dir[n]]

NoFiles == [n \in {} |-> <<>>]

-----------------------------------------------------------------------------
(* The environments a run starts in *)

Quoted(v) == <<"\"">> \o v \o <<"\"">>

\* one property of a decompiled tree, as dtc prints it:  kw = "v";
Field(kw, v) == <<"\t">> \o kw \o <<" ", "=", " ">> \o Quoted(v) \o <<";", "\n">>

\* the same without the optional blanks
TightField(kw, v) == kw \o <<"=">> \o Quoted(v) \o <<";">>

Txt_google_zuma == <<"g", "o", "o", "g", "l", "e", ",", "z", "u", "m", "a">>

Txt_B0_IPOP == <<"B", "0", ",", "I", "P", "O", "P">>

Txt_B0_IPOP_1 == <<"B", "0", ",", "I", "P", "O", "P", "_", "1">>

Txt_Foo == <<"F", "o", "o">>

\* what the stub decompiler may do with a region
StubResults ==
    { Raised,
      Exited(1, <<>>),
      Exited(0, <<>>),
      Exited(0, Field(Kw_description, Txt_Foo)),
      Exited(0, Field(Kw_compatible, Txt_google_zuma)
                \o Field(Kw_description, Txt_B0_IPOP)),
      Exited(0, Field(Kw_compatible, Txt_google_zuma)
                \o Field(Kw_description, Txt_B0_IPOP_1)) }

\* a decompiler that fails or prints a tree without the two fields
PlainResults == { Exited(1, <<>>), Exited(0, <<"/", " ", "{", "}", ";", "\n">>) }

ValChars == {",", " ", "B"}

Values == SeqsUpTo(ValChars, MaxVal)

\* a field of every value, in both layouts, or no field
FieldTexts(kw) ==
    {<<>>} \cup {Field(kw, v) : v \in Values} \cup {TightField(kw, v) : v \in Values}

\* a decompiler that prints any text of at most one compatible and one
\* description field, or cannot be launched
FuzzResults ==
    {Raised} \cup
    {Exited(0, c \o d) : c \in FieldTexts(Kw_compatible), d \in FieldTexts(Kw_description)}

DtcBehaviours(kind) ==
    CASE kind = "stub"  -> StubResults
      [] kind = "plain" -> PlainResults
      [] kind = "fuzz"  -> FuzzResults

\* k blobs back to back, blob j being the marker and the byte j
RECURSIVE Blobs(_)
Blobs(k) == IF k = 0 THEN <<>> ELSE Blobs(k - 1) \o DTB_HEADER \o <<k>>

\* images of 0..MaxRegions blobs after nothing or one byte of kernel, and two
\* images that hold only a part of the marker
StubImages ==
    {pre \o Blobs(k) : pre \in {<<>>, <<0>>}, k \in 0..MaxRegions}
    \cup {SubSeq(DTB_HEADER, 1, 3), <<0>> \o SubSeq(DTB_HEADER, 2, 4)}

MarkerBytes == {DTB_HEADER[k] : k \in 1..Len(DTB_HEADER)}

Junk == SeqsUpTo(MarkerBytes, MaxJunk)

\* images of at most two markers with any marker bytes before, between and
\* after them
ScanImages ==
    {a \o m1 \o b \o m2 \o c : a \in Junk, b \in Junk, c \in Junk,
                               m1 \in {<<>>, DTB_HEADER}, m2 \in {<<>>, DTB_HEADER}}

StaleName == <<"z", "u", "m", "a", "-", "b", "0", "-", "i", "p", "o", "p">> \o Ext_dtb

\* args.out_dir before the run: missing, empty, or holding an earlier file
OutDirs ==
    { [exists |-> FALSE, files |-> NoFiles],
      [exists |-> TRUE,  files |-> NoFiles],
      [exists |-> TRUE,  files |-> [n \in {StaleName} |-> <<0>>]] }

InitOf(images, kind, dirs) ==
    /\ inputExists \in BOOLEAN
    /\ inputBytes \in (IF inputExists THEN images ELSE {<<>>})
    /\ dtc = kind
    /\ outDir0 \in dirs
    /\ dirExists = outDir0.exists
    /\ files = outDir0.files
    /\ pc = "start"
    /\ exitCode = -1
    /\ error = "none"
    /\ content = <<>>
    /\ positions = <<>>
    /\ dtb_next = -1
    /\ used_names = [n \in {} |-> 0]
    /\ i = 0
    /\ chunk = <<>>
    /\ result = Raised
    /\ tokens = <<>>
    /\ new_name = None
    /\ regions = <<>>
    /\ log = <<>>
    /\ run = 1
    /\ prev = [log |-> <<>>, files |-> NoFiles, error |-> "none", exitCode |-> -1]
    /\ memo = [b \in {} |-> Raised]

Init == InitOf(StubImages, "stub", OutDirs)

InitScan == InitOf(ScanImages, "plain", {[exists |-> FALSE, files |-> NoFiles]})

\* the stub images, and one of two blobs of the same bytes
TwinImages == StubImages \cup {DTB_HEADER \o <<1>> \o DTB_HEADER \o <<1>>}

\* two runs, each into a fresh output directory that main has to create
InitTwice == InitOf(TwinImages, "stub", {d \in OutDirs : ~d.exists})

InitMeta == InitOf({DTB_HEADER, <<0>>}, "fuzz", {[exists |-> TRUE, files |-> NoFiles]})

-----------------------------------------------------------------------------
(* The steps of main *)

\* sys.exit(code)
Exit(code) == pc' = "exit" /\ exitCode' = code

\* an exception nothing catches: a traceback and exit status 1
Uncaught(what) == Exit(1) /\ error' = what

\* a check of the input path that reports the missing file and goes on
CheckInput_Continues ==
    /\ pc = "start"
    /\ pc' = "read"
    /\ UNCHANGED <<run, prev, memo>>
    /\ UNCHANGED <<inputExists, inputBytes, dtc, outDir0, dirExists, files,
                   exitCode, error, content, positions, dtb_next, used_names, i,
                   chunk, result, tokens, new_name, regions, log>>

\* lines 78-80
CheckInput ==
    /\ pc = "start"
    /\ IF inputExists THEN pc' = "read" /\ exitCode' = exitCode ELSE Exit(1)
    /\ UNCHANGED <<run, prev, memo>>
    /\ UNCHANGED <<inputExists, inputBytes, dtc, outDir0, dirExists, files, error,
                   content, positions, dtb_next, used_names, i, chunk, result,
                   tokens, new_name, regions, log>>

\* lines 83-84
ReadInput ==
    /\ pc = "read"
    /\ content' = inputBytes
    /\ pc' = "find"
    /\ UNCHANGED <<run, prev, memo>>
    /\ UNCHANGED <<inputExists, inputBytes, dtc, outDir0, dirExists, files,
                   exitCode, error, positions, dtb_next, used_names, i, chunk,
                   result, tokens, new_name, regions, log>>

\* lines 83-84, open or read raising
ReadFail ==
    /\ pc = "read"
    /\ Uncaught("read")
    /\ UNCHANGED <<run, prev, memo>>
    /\ UNCHANGED <<inputExists, inputBytes, dtc, outDir0, dirExists, files,
                   content, positions, dtb_next, used_names, i, chunk, result,
                   tokens, new_name, regions, log>>

\* lines 87-88
ScanFirst ==
    /\ pc = "find"
    /\ positions' = <<>>
    /\ dtb_next' = Find(content, 0)
    /\ pc' = "scan"
    /\ UNCHANGED <<run, prev, memo>>
    /\ UNCHANGED <<inputExists, inputBytes, dtc, outDir0, dirExists, files,
                   exitCode, error, content, used_names, i, chunk, result,
                   tokens, new_name, regions, log>>

\* lines 89-91, one turn of the while loop
ScanStep ==
    /\ pc = "scan"
    /\ dtb_next # -1
    /\ positions' = Append(positions, dtb_next)
    /\ dtb_next' = Find(content, ResumeAt(dtb_next))
    /\ UNCHANGED <<run, prev, memo>>
    /\ UNCHANGED <<inputExists, inputBytes, dtc, outDir0, dirExists, files, pc,
                   exitCode, error, content, used_names, i, chunk, result,
                   tokens, new_name, regions, log>>

\* lines 93-95
NoDTBs ==
    /\ pc = "scan"
    /\ dtb_next = -1
    /\ positions = <<>>
    /\ Exit(0)
    /\ UNCHANGED <<run, prev, memo>>
    /\ UNCHANGED <<inputExists, inputBytes, dtc, outDir0, dirExists, files, error,
                   content, positions, dtb_next, used_names, i, chunk, result,
                   tokens, new_name, regions, log>>

\* a main whose registry is not created anew: it keeps what it held
MakeDirs_KeepsRegistry ==
    /\ pc = "scan"
    /\ dtb_next = -1
    /\ positions # <<>>
    /\ dirExists' = TRUE
    /\ i' = 0
    /\ pc' = "loop"
    /\ UNCHANGED <<run, prev, memo>>
    /\ UNCHANGED <<inputExists, inputBytes, dtc, outDir0, files, exitCode, error,
                   content, positions, dtb_next, used_names, chunk, result, tokens,
                   new_name, regions, log>>

\* a main that creates the output directory before it looks at positions
MakeDirs_Early ==
    /\ pc = "scan"
    /\ dtb_next = -1
    /\ dirExists' = TRUE
    /\ used_names' = [n \in {} |-> 0]
    /\ i' = 0
    /\ pc' = IF positions = <<>> THEN "exit" ELSE "loop"
    /\ exitCode' = IF positions = <<>> THEN 0 ELSE exitCode
    /\ UNCHANGED <<run, prev, memo>>
    /\ UNCHANGED <<inputExists, inputBytes, dtc, outDir0, files, error, content,
                   positions, dtb_next, chunk, result, tokens, new_name, regions,
                   log>>

\* lines 97-106
MakeDirs ==
    /\ pc = "scan"
    /\ dtb_next = -1
    /\ positions # <<>>
    /\ dirExists' = TRUE
    /\ used_names' = [n \in {} |-> 0]
    /\ i' = 0
    /\ pc' = "loop"
    /\ UNCHANGED <<run, prev, memo>>
    /\ UNCHANGED <<inputExists, inputBytes, dtc, outDir0, files, exitCode, error,
                   content, positions, dtb_next, chunk, result, tokens, new_name,
                   regions, log>>

\* line 99, os.makedirs raising
MakeDirsFail ==
    /\ pc = "scan"
    /\ dtb_next = -1
    /\ positions # <<>>
    /\ Uncaught("makedirs")
    /\ UNCHANGED <<run, prev, memo>>
    /\ UNCHANGED <<inputExists, inputBytes, dtc, outDir0, dirExists, files,
                   content, positions, dtb_next, used_names, i, chunk, result,
                   tokens, new_name, regions, log>>

\* lines 112-124
LoopDump ==
    /\ pc = "loop"
    /\ i < Len(positions)
    /\ LET start == positions[i + 1]
           end   == LoopPositions(content, positions)[i + 2]
       IN  /\ chunk' = Slice(content, start, end)
           /\ regions' = Append(regions, [start |-> start, end |-> end,
                                          bytes |-> chunk'])
    /\ files' = Dump(files, TempName(i), chunk')
    /\ pc' = "decode"
    /\ UNCHANGED <<run, prev, memo>>
    /\ UNCHANGED <<inputExists, inputBytes, dtc, outDir0, dirExists, exitCode,
                   error, content, positions, dtb_next, used_names, i, result,
                   tokens, new_name, log>>

\* line 124, dump_file raising: before the file is opened, or after it is
\* opened and before its bytes are written
DumpFail ==
    /\ pc = "loop"
    /\ i < Len(positions)
    /\ \E opened \in BOOLEAN :
          files' = IF opened THEN Dump(files, TempName(i), <<>>) ELSE files
    /\ Uncaught("dump")
    /\ UNCHANGED <<run, prev, memo>>
    /\ UNCHANGED <<inputExists, inputBytes, dtc, outDir0, dirExists, content,
                   positions, dtb_next, used_names, i, chunk, result, tokens,
                   new_name, regions, log>>

\* a get_readable_name that lets the failure to launch dtc through
Decode_Propagates ==
    /\ pc = "decode"
    /\ \E res \in DtcBehaviours(dtc) :
          /\ result' = res
          /\ tokens' = Tokens(res)
          /\ new_name' = get_readable_name(res)
          /\ IF res.raised THEN Uncaught("dtc")
             ELSE pc' = "resolve" /\ exitCode' = exitCode /\ error' = error
    /\ UNCHANGED <<run, prev, memo>>
    /\ UNCHANGED <<inputExists, inputBytes, dtc, outDir0, dirExists, files,
                   content, positions, dtb_next, used_names, i, chunk, regions,
                   log>>

\* line 127: get_readable_name(temp_path), lines 12-63
Decode ==
    /\ pc = "decode"
    /\ \E res \in DtcBehaviours(dtc) :
          /\ result' = res
          /\ tokens' = Tokens(res)
          /\ new_name' = get_readable_name(res)
    /\ pc' = "resolve"
    /\ UNCHANGED <<run, prev, memo>>
    /\ UNCHANGED <<inputExists, inputBytes, dtc, outDir0, dirExists, files,
                   exitCode, error, content, positions, dtb_next, used_names, i,
                   chunk, regions, log>>

\* lines 129-141
ResolveDecoded ==
    /\ pc = "resolve"
    /\ new_name # None
    /\ used_names' = Register(used_names, new_name)
    /\ files' = Rename(files, TempName(i), FinalName(used_names, new_name))
    /\ log' = Append(log, [index |-> i, final_name |-> FinalName(used_names, new_name),
                           new_name |-> new_name])
    /\ i' = i + 1
    /\ pc' = "loop"
    /\ UNCHANGED <<run, prev, memo>>
    /\ UNCHANGED <<inputExists, inputBytes, dtc, outDir0, dirExists, exitCode,
                   error, content, positions, dtb_next, chunk, result, tokens,
                   new_name, regions>>

\* a fallback branch that prints no line for the region
ResolveFallback_Silent ==
    /\ pc = "resolve"
    /\ new_name = None
    /\ files' = Rename(files, TempName(i), FallbackName(i))
    /\ i' = i + 1
    /\ pc' = "loop"
    /\ UNCHANGED <<run, prev, memo>>
    /\ UNCHANGED <<inputExists, inputBytes, dtc, outDir0, dirExists, exitCode,
                   error, content, positions, dtb_next, used_names, chunk, result,
                   tokens, new_name, regions, log>>

\* lines 142-147
ResolveFallback ==
    /\ pc = "resolve"
    /\ new_name = None
    /\ files' = Rename(files, TempName(i), FallbackName(i))
    /\ log' = Append(log, [index |-> i, final_name |-> FallbackName(i),
                           new_name |-> None])
    /\ i' = i + 1
    /\ pc' = "loop"
    /\ UNCHANGED <<run, prev, memo>>
    /\ UNCHANGED <<inputExists, inputBytes, dtc, outDir0, dirExists, exitCode,
                   error, content, positions, dtb_next, used_names, chunk, result,
                   tokens, new_name, regions>>

\* lines 140 and 146, os.rename raising
RenameFail ==
    /\ pc = "resolve"
    /\ used_names' = IF new_name # None THEN Register(used_names, new_name)
                     ELSE used_names
    /\ Uncaught("rename")
    /\ UNCHANGED <<run, prev, memo>>
    /\ UNCHANGED <<inputExists, inputBytes, dtc, outDir0, dirExists, files,
                   content, positions, dtb_next, i, chunk, result, tokens,
                   new_name, regions, log>>

\* line 149, the loop over
LoopEnd ==
    /\ pc = "loop"
    /\ i = Len(positions)
    /\ Exit(0)
    /\ UNCHANGED <<run, prev, memo>>
    /\ UNCHANGED <<inputExists, inputBytes, dtc, outDir0, dirExists, files, error,
                   content, positions, dtb_next, used_names, i, chunk, result,
                   tokens, new_name, regions, log>>

Next ==
    \/ CheckInput
    \/ ReadInput
    \/ ReadFail
    \/ ScanFirst
    \/ ScanStep
    \/ NoDTBs
    \/ MakeDirs
    \/ MakeDirsFail
    \/ LoopDump
    \/ DumpFail
    \/ Decode
    \/ ResolveDecoded
    \/ ResolveFallback
    \/ RenameFail
    \/ LoopEnd

\* line 127 with a decompiler that answers the same bytes the same way: the
\* outcome is free the first time a file of these bytes is decoded and the
\* same ever after
DecodeSame ==
    /\ pc = "decode"
    /\ LET bytes == files[TempName(i)]
       IN  \E res \in DtcBehaviours(dtc) :
              /\ bytes \in DOMAIN memo => res = memo[bytes]
              /\ result' = res
              /\ tokens' = Tokens(res)
              /\ new_name' = get_readable_name(res)
              /\ memo' = [b \in DOMAIN memo \cup {bytes} |->
                             IF b = bytes THEN res ELSE memo[b]]
    /\ pc' = "resolve"
    /\ UNCHANGED <<run, prev>>
    /\ UNCHANGED <<inputExists, inputBytes, dtc, outDir0, dirExists, files,
                   exitCode, error, content, positions, dtb_next, used_names, i,
                   chunk, regions, log>>

\* main is run a second time on the same input, into a fresh output directory
\* like the first.  What the first run left in main's variables stays there
\* until main assigns them.
Rerun ==
    /\ pc = "exit"
    /\ run = 1
    /\ run' = 2
    /\ prev' = [log |-> log, files |-> files, error |-> error, exitCode |-> exitCode]
    /\ pc' = "start"
    /\ exitCode' = -1
    /\ error' = "none"
    /\ dirExists' = outDir0.exists
    /\ files' = outDir0.files
    /\ regions' = <<>>
    /\ log' = <<>>
    /\ UNCHANGED <<inputExists, inputBytes, dtc, outDir0, content, positions,
                   dtb_next, used_names, i, chunk, result, tokens, new_name, memo>>

NextTwice ==
    \/ CheckInput
    \/ ReadInput
    \/ ReadFail
    \/ ScanFirst
    \/ ScanStep
    \/ NoDTBs
    \/ MakeDirs
    \/ MakeDirsFail
    \/ LoopDump
    \/ DumpFail
    \/ DecodeSame
    \/ ResolveDecoded
    \/ ResolveFallback
    \/ RenameFail
    \/ LoopEnd
    \/ Rerun

\* the stub decompiler on images of a few blobs
Spec == Init /\ [][Next]_vars

\* every image of the scan-stress family
SpecScan == InitScan /\ [][Next]_vars

\* two runs of main on one image with a decompiler that repeats itself
SpecTwice == InitTwice /\ [][NextTwice]_vars

\* every generated text on an image of one blob, and an image of none
SpecMeta == InitMeta /\ [][Next]_vars

-----------------------------------------------------------------------------
(* What the claims speak of *)

\* the run ended by itself: sys.exit or the end of main, no traceback
Completed == pc = "exit" /\ error = "none"

\* the run completed after taking regions from the image
Extracted == Completed /\ positions # <<>>

\* the entries of the log whose region decoded to the canonical name b
Uses(b, upto) == {m \in 1..upto : log[m].new_name = b}

\* "X-Y-Z" of "X-Y-Z.dtb"
Stem(b) == SubSeq(b, 1, Len(b) - 4)

\* the marker's four bytes stand at offset p of buf
MarkerAt(buf, p) ==
    /\ p >= 0
    /\ p + 4 <= Len(buf)
    /\ buf[p + 1] = 208
    /\ buf[p + 2] = 13
    /\ buf[p + 3] = 254
    /\ buf[p + 4] = 237

MarkerOffsets(buf) == {p \in 0..Len(buf) : MarkerAt(buf, p)}

Ascending(pos) == \A a, b \in 1..Len(pos) : a < b => pos[a] < pos[b]

Range(f) == {f[x] : x \in DOMAIN f}

\* the scan is over
ScanDone ==
    \/ pc \in {"loop", "decode", "resolve"}
    \/ pc = "scan" /\ dtb_next = -1
    \/ pc = "exit" /\ inputExists /\ error # "read"

-----------------------------------------------------------------------------
(* C1: a completed run over N >= 1 regions into an empty directory leaves   *)
(* exactly N files, the final names of its regions pairwise distinct.       *)
(* The code breaks it: a canonical name that equals an earlier suffixed one *)
(* is taken unchanged and replaces that file.                               *)
C1_OneFilePerRegion ==
    (Extracted /\ outDir0.files = NoFiles) =>
        /\ Cardinality(DOMAIN files) = Len(positions)
        /\ \A a, b \in 1..Len(log) :
              a # b => log[a].final_name # log[b].final_name

(* C2: the first decoded region of canonical name B = "X-Y-Z.dtb" is named  *)
(* B, the (k+1)-th one "X-Y-Z_k.dtb", and used_names holds for B the number *)
(* of regions resolved to B less one.                                       *)
C2_CollisionSequencing ==
    /\ \A j \in 1..Len(log) :
          log[j].new_name # None =>
              LET B == log[j].new_name
                  k == Cardinality(Uses(B, j - 1))
              IN  log[j].final_name =
                      IF k = 0 THEN B
                      ELSE Stem(B) \o <<"_">> \o IntToStr(k) \o <<".", "d", "t", "b">>
    /\ error # "rename" =>
          /\ DOMAIN used_names = {log[j].new_name : j \in 1..Len(log)} \ {None}
          /\ \A B \in DOMAIN used_names :
                used_names[B] = Cardinality(Uses(B, Len(log))) - 1

\* a third region of one canonical name has been named
C2_Witness ==
    \E j \in 1..Len(log) :
        /\ Cardinality(Uses(log[j].new_name, j - 1)) = 2
        /\ log[j].new_name # None
        /\ used_names[log[j].new_name] = 2

(* C3: a region of zero-based index n whose decoding failed is named        *)
(* "unknown_<n as two digits>.dtb" whatever the other regions are, and the  *)
(* step that names it leaves used_names as it was.                          *)
C3_FallbackNaming ==
    /\ [](\A j \in 1..Len(log) :
            log[j].new_name = None =>
                /\ log[j].index = j - 1
                /\ log[j].final_name =
                       <<"u", "n", "k", "n", "o", "w", "n", "_",
                         Digit[((j - 1) \div 10) + 1], Digit[((j - 1) % 10) + 1],
                         ".", "d", "t", "b">>)
    /\ [][(pc = "resolve" /\ new_name = None) => used_names' = used_names]_vars

\* a failed region between two decoded regions of one canonical name, the
\* second of which got the suffix _1
C3_Witness ==
    /\ Len(log) >= 3
    /\ log[1].new_name # None
    /\ log[2].new_name = None
    /\ log[3].new_name = log[1].new_name
    /\ log[3].final_name = Stem(log[1].new_name) \o <<"_", "1", ".", "d", "t", "b">>

(* C4: when the write or the rename of region i fails, every later region   *)
(* is still attempted before the run ends.  The code breaks it: the         *)
(* exception is not caught and ends the run at region i.                    *)
C4_WriteFailureContinues ==
    (pc = "exit" /\ error \in {"dump", "rename"}) =>
        \A k \in (i + 1)..(Len(positions) - 1) : k < Len(regions)

(* C5: arg1 is "unknown" without a compatible field, the trimmed text after *)
(* the FIRST comma of the field's value when it has a comma, and the        *)
(* trimmed value otherwise.  The code breaks it on a value of two commas.   *)
C5_Arg1AfterFirstComma ==
    (pc = "resolve" /\ ~result.raised /\ result.returncode = 0) =>
        LET m == ReSearch(Kw_compatible, result.stdout)
            v == m.group
            commas == {k \in 1..Len(v) : v[k] = ","}
        IN  tokens[1] =
                IF ~m.found THEN <<"u", "n", "k", "n", "o", "w", "n">>
                ELSE IF commas # {} THEN Strip(SubSeq(v, Min(commas) + 1, Len(v)))
                ELSE Strip(v)

(* C6: arg2 and arg3 are "unk" without a description field; with one, arg2  *)
(* is its first comma-separated segment lowercased and trimmed, or "unk"    *)
(* when that segment is empty, and arg3 its second segment lowercased and   *)
(* trimmed, or "unk" when there is none.  The code breaks it on an empty    *)
(* first segment, which it keeps.                                           *)
C6_Arg2Arg3Defaults ==
    (pc = "resolve" /\ ~result.raised /\ result.returncode = 0) =>
        LET m == ReSearch(Kw_description, result.stdout)
            parts == SplitComma(m.group)
            unk == <<"u", "n", "k">>
        IN  /\ tokens[2] = IF ~m.found \/ parts[1] = <<>> THEN unk
                           ELSE Lower(Strip(parts[1]))
            /\ tokens[3] = IF ~m.found \/ Len(parts) < 2 THEN unk
                           ELSE Lower(Strip(parts[2]))

(* C7: the regions are as many as the marker offsets, region j is the      *)
(* range from offset j to the next offset (the image's length for the last),*)
(* so they are contiguous and in order, none starts before the first marker,*)
(* and together they are the image from the first marker on.                *)
C7_RegionPartitioning ==
    /\ \A j \in 1..Len(regions) :
          /\ j <= Len(positions)
          /\ regions[j].start = positions[j]
          /\ regions[j].end = IF j < Len(positions) THEN positions[j + 1]
                              ELSE Len(content)
          /\ regions[j].bytes = SubSeq(content, positions[j] + 1, regions[j].end)
          /\ j > 1 => regions[j].start = regions[j - 1].end
          /\ regions[j].start >= Min(MarkerOffsets(content))
    /\ Extracted =>
          /\ Len(regions) = Cardinality(MarkerOffsets(content))
          /\ Concat([j \in 1..Len(regions) |-> regions[j].bytes])
                = SubSeq(content, Min(MarkerOffsets(content)) + 1, Len(content))

\* a completed run over two regions, with bytes before the first marker,
\* between the two and after the second
C7_Witness ==
    /\ Extracted
    /\ Len(regions) = 2
    /\ regions[1].start > 0
    /\ Len(regions[1].bytes) > 4
    /\ Len(regions[2].bytes) > 4

(* C8: the scan returns the offsets of the marker in the image, all of them *)
(* and each once, in strictly ascending order, none when the image has no   *)
(* marker; and it ends, each turn of its loop moving the search forward.    *)
C8_Scanner ==
    /\ [](/\ pc = "scan" =>
              LET lim == IF dtb_next = -1 THEN Len(content) ELSE dtb_next
              IN  /\ Ascending(positions)
                  /\ Range(positions) = {p \in MarkerOffsets(content) : p < lim}
                  /\ dtb_next # -1 => MarkerAt(content, dtb_next)
          /\ ScanDone =>
              /\ Ascending(positions)
              /\ Range(positions) = MarkerOffsets(content)
              /\ Len(positions) = Cardinality(MarkerOffsets(content)))
    /\ [][(pc = "scan" /\ pc' = "scan") =>
              /\ dtb_next < Len(content)
              /\ dtb_next' = -1 \/ dtb_next' > dtb_next]_vars

\* the scan is over and found two markers back to back after other bytes
C8_Witness ==
    /\ ScanDone
    /\ Len(positions) = 2
    /\ positions[1] > 0
    /\ positions[2] = positions[1] + 4

(* C9: a decompiler that exits nonzero or cannot be launched does not end   *)
(* the run: the region gets no name from it, the step goes on to the naming,*)
(* and a run that no write error ends exits with status zero having logged  *)
(* every region, each failed one standing in the directory under its        *)
(* fallback name with the region's bytes.                                   *)
C9_DecodeFailureNonFatal ==
    /\ [](pc = "resolve" /\ (result.raised \/ result.returncode # 0)
             => new_name = None)
    /\ [](Extracted =>
             /\ exitCode = 0
             /\ Len(log) = Len(positions)
             /\ \A j \in 1..Len(log) :
                   log[j].new_name = None =>
                       /\ log[j].final_name \in DOMAIN files
                       /\ files[log[j].final_name] = regions[j].bytes)
    /\ [][pc = "decode" => (pc' = "resolve" /\ exitCode' = -1 /\ error' = "none")]_vars

\* a completed run whose first region failed to decode, once by launch and
\* once by exit status, and whose third region decoded
C9_Witness ==
    /\ Extracted
    /\ exitCode = 0
    /\ Len(log) = 3
    /\ log[1].new_name = None
    /\ log[2].new_name = None
    /\ log[3].new_name # None
    /\ result.returncode = 0

(* C10: when the input path does not exist the run ends with a nonzero      *)
(* status, the output directory neither created nor written, nothing read,  *)
(* scanned or processed.                                                    *)
C10_MissingInputFatal ==
    ~inputExists =>
        /\ pc \in {"start", "exit"}
        /\ pc = "exit" => exitCode # 0 /\ exitCode # -1
        /\ dirExists = outDir0.exists
        /\ files = outDir0.files
        /\ content = <<>>
        /\ positions = <<>>
        /\ dtb_next = -1
        /\ regions = <<>>
        /\ log = <<>>

\* the run has ended on a missing input, the output directory still missing
C10_Witness ==
    /\ ~inputExists
    /\ pc = "exit"
    /\ exitCode = 1
    /\ ~dirExists

(* C11: when the input is read and holds no marker the run ends with exit  *)
(* status zero, having written no file, temporary or final, run the         *)
(* decompiler not once, and left the output location as it was.             *)
C11_NothingToExtract ==
    (inputExists /\ error # "read" /\ MarkerOffsets(inputBytes) = {}) =>
        /\ pc \in {"start", "read", "find", "scan", "exit"}
        /\ pc = "exit" => exitCode = 0
        /\ dirExists = outDir0.exists
        /\ files = outDir0.files
        /\ regions = <<>>
        /\ log = <<>>
        /\ result = Raised /\ tokens = <<>> /\ new_name = None

\* the run has ended on an image that holds a part of the marker, the output
\* directory missing before and after
C11_Witness ==
    /\ Completed
    /\ exitCode = 0
    /\ Len(content) >= 3
    /\ positions = <<>>
    /\ ~outDir0.exists
    /\ ~dirExists

(* C12: the fallback name of a region whose decoding failed differs from    *)
(* the final name of every other region of the run, be that a fallback      *)
(* name, a canonical name ("unknown-unk-unk.dtb" too) or a suffixed name.   *)
C12_FallbackNamesUnique ==
    \A a, b \in 1..Len(log) :
        (a # b /\ log[a].new_name = None) => log[a].final_name # log[b].final_name

\* two failed regions and one named from a text without fields, or one failed
\* region and two regions named from a text without fields
C12_Witness ==
    /\ Len(log) = 3
    /\ \E a, b, c \in 1..3 :
          /\ log[a].new_name = None
          /\ log[b].final_name = <<"u", "n", "k", "n", "o", "w", "n", "-",
                                   "u", "n", "k", "-", "u", "n", "k",
                                   ".", "d", "t", "b">>
          /\ c \notin {a, b}
          /\ \/ log[c].new_name = None
             \/ log[c].final_name = <<"u", "n", "k", "n", "o", "w", "n", "-",
                                      "u", "n", "k", "-", "u", "n", "k", "_", "1",
                                      ".", "d", "t", "b">>

\* the files of the output directory named temp_...
TempFiles ==
    {n \in DOMAIN files : Len(n) >= 5 /\ SubSeq(n, 1, 5) = <<"t", "e", "m", "p", "_">>}

(* C14: the regions are processed one at a time in ascending index: a       *)
(* region is taken only when every earlier region has been decoded, named,  *)
(* renamed and reported, and the lines reported are one per region, in      *)
(* ascending index.                                                         *)
C14_StrictPipelining ==
    /\ [](/\ \A j \in 1..Len(log) : log[j].index = j - 1
          /\ pc = "loop" => Len(regions) = i /\ Len(log) = i
          /\ pc \in {"decode", "resolve"} => Len(regions) = i + 1 /\ Len(log) = i
          /\ Extracted => Len(log) = Len(positions) /\ Len(regions) = Len(positions))
    /\ [][Len(regions') # Len(regions) =>
              /\ Len(regions') = Len(regions) + 1
              /\ Len(log) = Len(regions)
              /\ regions'[Len(regions')].start = positions[Len(regions) + 1]
              /\ pc' = "decode"]_vars
    /\ [][pc = "decode" => pc' = "resolve" /\ log' = log /\ files' = files]_vars
    /\ [][Len(log') # Len(log) =>
              /\ pc = "resolve"
              /\ Len(log') = Len(log) + 1
              /\ log'[Len(log')].index = i
              /\ log'[Len(log')].final_name \in DOMAIN files'
              /\ i' = i + 1]_vars

\* the third region waits for its name, the two before it reported
C14_Witness ==
    /\ pc = "resolve"
    /\ i = 2
    /\ Len(log) = 2
    /\ Len(regions) = 3

(* C15: at any time at most one file temp_<i>.dtb stands in the output      *)
(* directory, that of the region being processed, holding that region's     *)
(* bytes; it is gone before the next region is taken, and when the run      *)
(* completes no temp file is left and every final file holds the bytes of   *)
(* a region.                                                                *)
C15_TransientFiles ==
    /\ Cardinality(TempFiles) <= 1
    /\ pc \in {"decode", "resolve"} =>
          /\ TempFiles = {TempName(i)}
          /\ files[TempName(i)] = SubSeq(content, regions[i + 1].start + 1,
                                         regions[i + 1].end)
    /\ pc = "loop" => TempFiles = {}
    /\ Completed =>
          /\ TempFiles = {}
          /\ DOMAIN files =
                DOMAIN outDir0.files \cup {log[j].final_name : j \in 1..Len(log)}
          /\ \A j \in 1..Len(log) :
                \E k \in 1..Len(regions) :
                    files[log[j].final_name] =
                        SubSeq(content, positions[k] + 1,
                               IF k < Len(positions) THEN positions[k + 1]
                               ELSE Len(content))

\* a completed run over three regions into a directory that held a file
C15_Witness ==
    /\ Completed
    /\ Len(log) = 3
    /\ outDir0.files # NoFiles
    /\ Cardinality(DOMAIN files) >= 3

(* C13: a second run on the same input, into a fresh output directory, with *)
(* a decompiler that answers the same bytes the same way, gives the names   *)
(* and the files of the first run; used_names starts empty in each run and  *)
(* holds nothing of the run before.                                         *)
C13_Determinism ==
    /\ (run = 2 /\ prev.error = "none") =>
          /\ Len(log) <= Len(prev.log)
          /\ \A j \in 1..Len(log) : log[j] = prev.log[j]
    /\ (run = 2 /\ prev.error = "none" /\ Completed) =>
          /\ log = prev.log
          /\ files = prev.files
          /\ exitCode = prev.exitCode
    /\ (pc \in {"loop", "decode"}) =>
          DOMAIN used_names = {log[j].new_name : j \in 1..Len(log)} \ {None}

\* a second run has completed like the first, over three regions of which
\* one got a collision suffix and one a fallback name
C13_Witness ==
    /\ run = 2
    /\ Completed
    /\ prev.error = "none"
    /\ Len(log) = 3
    /\ \E j \in 1..3 : log[j].new_name = None
    /\ \E j \in 1..3 : log[j].new_name # None /\ log[j].final_name # log[j].new_name

=============================================================================
